---- MODULE Spec2Model ----
(***************************************************************************)
(* ElderCare API (src/main.py, src/models.py): the request handlers of the *)
(* FastAPI application over the two MongoDB collections `users` and        *)
(* `service_requests`.                                                     *)
(*                                                                         *)
(* A handler runs as one coroutine; it can be suspended only at an `await` *)
(* of a database operation.  signup awaits twice (find_one, insert_one),   *)
(* so it is two steps; every other handler awaits one database operation   *)
(* and is one step.  A database operation either completes or raises (the  *)
(* handlers' `except Exception` branches); one that raises has changed     *)
(* nothing.  The two collections are independent, so the handlers of each  *)
(* are also checked on their own (SpecUsers, SpecRequests).                *)
(***************************************************************************)
EXTENDS Integers, Sequences, FiniteSets, Bags, TLC

VARIABLES
    users,      \* db.users: a set of documents
    requests,   \* db.service_requests: a set of documents
    inflight,   \* the signup coroutines suspended between find_one and insert_one:
                \* a bag of their request bodies
    last,       \* the step taken last: handler, inputs, response, collections before
    acked,      \* history: _id and email of every signup that returned 200
    raced,      \* history: a signup passed its check while another signup with
                \*          the same email was between its check and its insert
    decided     \* history: per request _id, the last successful approve/reject

vars == <<users, requests, inflight, last, acked, raced, decided>>

----------------------------------------------------------------------------
(* Bounds of the model *)

MaxUsers == 2

MaxRequests == 2

----------------------------------------------------------------------------
(* bson.ObjectId: a 12-byte value, here its numeric value.  str(oid) is 24  *)
(* lowercase hex digits; ObjectId(s) accepts exactly the strings of 24 hex   *)
(* digits of either case and raises on anything else.                        *)

HexChars == <<"0","1","2","3","4","5","6","7","8","9","a","b","c","d","e","f">>

IsHexChar(ch) ==
    ch \in { "0","1","2","3","4","5","6","7","8","9",
             "a","b","c","d","e","f","A","B","C","D","E","F" }

HexVal(ch) ==
    CASE ch = "0" -> 0 [] ch = "1" -> 1 [] ch = "2" -> 2 [] ch = "3" -> 3
      [] ch = "4" -> 4 [] ch = "5" -> 5 [] ch = "6" -> 6 [] ch = "7" -> 7
      [] ch = "8" -> 8 [] ch = "9" -> 9
      [] ch \in {"a", "A"} -> 10 [] ch \in {"b", "B"} -> 11
      [] ch \in {"c", "C"} -> 12 [] ch \in {"d", "D"} -> 13
      [] ch \in {"e", "E"} -> 14 [] ch \in {"f", "F"} -> 15

\* str(ObjectId): the 24 lowercase hex digits of the value, most significant first
RECURSIVE HexDigits(_, _)
HexDigits(n, len) ==
    IF len = 0 THEN <<>>
    ELSE Append(HexDigits(n \div 16, len - 1), HexChars[(n % 16) + 1])

OidStr(oid) == HexDigits(oid, 24)

\* ObjectId(request_id) does not raise
OidValid(s) == Len(s) = 24 /\ \A i \in 1..Len(s) : IsHexChar(s[i])

\* the value of the first k hex digits of s
RECURSIVE HexNum(_, _)
HexNum(s, k) ==
    IF k = 0 THEN 0
    ELSE HexNum(s, k - 1) * 16 + HexVal(s[k])

\* ObjectId(request_id), for a valid string
OidParse(s) == HexNum(s, Len(s))

\* the _id the driver generates for an inserted document: unique in the collection
FreshOid(coll) ==
    CHOOSE n \in 10..(10 + Cardinality(coll)) :
        /\ \A d \in coll : d._id # n
        /\ \A m \in 10..(10 + Cardinality(coll)) : (\A d \in coll : d._id # m) => n <= m

----------------------------------------------------------------------------
(* Request bodies (src/models.py) *)

Emails == {"a@x.com", "b@x.com"}

Passwords == {"p", "q"}

Persons ==
    { [name |-> "A", password |-> "p", dob |-> "2000-01-01", role |-> "family"],
      [name |-> "B", password |-> "q", dob |-> "1950-05-05", role |-> "elder"] }

UserSignup ==
    { [name |-> pr.name, email |-> e, password |-> pr.password, dob |-> pr.dob,
       role |-> pr.role] : pr \in Persons, e \in Emails }

UserLogin == [email : Emails, password : Passwords]

----------------------------------------------------------------------------
(* Responses *)

HTTPException(code, detail) == [code |-> code, body |-> [detail |-> detail]]

Ok(body) == [code |-> 200, body |-> body]

NoResponse == [code |-> 0, body |-> [detail |-> ""]]

----------------------------------------------------------------------------
(* signup *)

\* mutation of FindByEmail: the filter names the wrong field
FindByEmail_ByName(coll, email) == { d \in coll : d.name = email }

\* db.users.find_one({"email": email}): the documents it may return
FindByEmail(coll, email) == { d \in coll : d.email = email }

\* mutation of UserData: name and role exchanged
UserData_Swapped(user) ==
    [ name |-> user.role,
      email |-> user.email,
      password |-> user.password,
      dob |-> user.dob,
      role |-> user.name ]

\* user_data of signup, and the document insert_one stores for it
UserData(user) ==
    [ name |-> user.name,
      email |-> user.email,
      password |-> user.password,
      dob |-> user.dob,
      role |-> user.role ]

InsertedUser(coll, user) ==
    [ _id |-> FreshOid(coll) ] @@ UserData(user)

\* mutation of SignupFind: the existence check is missing
SignupFind_NoCheck(user, storeOk) ==
    /\ Cardinality(users) + BagCardinality(inflight) < MaxUsers
    /\ inflight' = inflight (+) SetToBag({user})
    /\ raced' = (raced \/ \E o \in BagToSet(inflight) : o.email = user.email)
    /\ last' = [ op |-> "signup", step |-> "find", user |-> user,
                 preInflight |-> inflight,
                 storeOk |-> storeOk, pre |-> users, resp |-> NoResponse ]
    /\ UNCHANGED <<users, requests, acked, decided>>

\* signup up to its first await and the branch on existing_user
SignupFind(user, storeOk) ==
    /\ IF ~storeOk
       THEN /\ inflight' = inflight
            /\ raced' = raced
            /\ last' = [ op |-> "signup", step |-> "find", user |-> user,
                         preInflight |-> inflight,
                         storeOk |-> FALSE, pre |-> users,
                         resp |-> HTTPException(500, "Signup failed due to server error") ]
       ELSE IF FindByEmail(users, user.email) # {}
       THEN /\ inflight' = inflight
            /\ raced' = raced
            /\ last' = [ op |-> "signup", step |-> "find", user |-> user,
                         preInflight |-> inflight,
                         storeOk |-> TRUE, pre |-> users,
                         resp |-> HTTPException(409,
                            "Email already registered. Please use a different email or login to your existing account.") ]
       ELSE /\ Cardinality(users) + BagCardinality(inflight) < MaxUsers
            /\ inflight' = inflight (+) SetToBag({user})
            /\ raced' = (raced \/ \E o \in BagToSet(inflight) : o.email = user.email)
            /\ last' = [ op |-> "signup", step |-> "find", user |-> user,
                         preInflight |-> inflight,
                         storeOk |-> TRUE, pre |-> users, resp |-> NoResponse ]
    /\ UNCHANGED <<users, requests, acked, decided>>

\* signup from insert_one to its response.  outcome: "ack" (acknowledged),
\* "unack" (result.acknowledged is false: the write was sent, and may or may
\* not have been stored), "error" (insert_one raised, nothing stored).
SignupInsert(user, outcome, stored) ==
    /\ BagIn(user, inflight)
    /\ outcome = "ack" => stored
    /\ outcome = "error" => ~stored
    /\ LET doc == InsertedUser(users, user)
       IN  /\ users' = IF stored THEN users \cup {doc} ELSE users
           /\ acked' = IF outcome = "ack"
                       THEN acked \cup {[_id |-> doc._id, email |-> user.email]}
                       ELSE acked
           /\ last' = [ op |-> "signup", step |-> "insert", user |-> user,
                        storeOk |-> (outcome # "error"), outcome |-> outcome, pre |-> users,
                        resp |-> CASE outcome = "ack" ->
                                        Ok([message |-> "Account created successfully!"])
                                   [] outcome = "unack" ->
                                        HTTPException(500, "Signup failed")
                                   [] OTHER ->
                                        HTTPException(500, "Signup failed due to server error") ]
    /\ inflight' = inflight (-) SetToBag({user})
    /\ UNCHANGED <<requests, raced, decided>>

----------------------------------------------------------------------------
(* login *)

\* mutation of LoginUser: the whole document is echoed, password included
LoginUser_WithPassword(existing_user) ==
    [ id |-> OidStr(existing_user._id),
      name |-> existing_user.name,
      email |-> existing_user.email,
      password |-> existing_user.password,
      role |-> existing_user.role,
      dob |-> existing_user.dob ]

\* the "user" record of a successful login
LoginUser(existing_user) ==
    [ id |-> OidStr(existing_user._id),
      name |-> existing_user.name,
      email |-> existing_user.email,
      role |-> existing_user.role,
      dob |-> existing_user.dob ]

\* the response of login once find_one returned `found` (a set: empty for None)
LoginResponse(found, user) ==
    IF found = {}
    THEN HTTPException(404, "User not found. Please check your email or sign up.")
    ELSE LET existing_user == CHOOSE d \in found : TRUE
         IN  IF existing_user.password # user.password
             THEN HTTPException(401, "Incorrect password. Please try again.")
             ELSE Ok([message |-> "Login successful!", user |-> LoginUser(existing_user)])

Login(user, storeOk) ==
    /\ \E found \in IF FindByEmail(users, user.email) = {} THEN {{}}
                    ELSE { {d} : d \in FindByEmail(users, user.email) } :
          last' = [ op |-> "login", user |-> user, storeOk |-> storeOk,
                    pre |-> users,
                    resp |-> IF storeOk THEN LoginResponse(found, user)
                             ELSE HTTPException(500, "Login failed due to server error") ]
    /\ UNCHANGED <<users, requests, inflight, acked, raced, decided>>

----------------------------------------------------------------------------
(* Service requests *)

\* datetime.now().isoformat(): the instants the server clock is read at
Times == {"2025-01-01T00:00:00"}

\* client-supplied createdAt strings, as sequences of characters
CreatedAts == { <<"9">>, <<"1", "0">> }

Requesters == { [userId |-> "u1", userName |-> "A", userEmail |-> "a@x.com"] }

\* ServiceRequest bodies as sent: status may be omitted
ServiceRequestBodies ==
    LET base == { [ userId |-> r.userId, userName |-> r.userName, userEmail |-> r.userEmail,
                    serviceType |-> "nursing", requirements |-> "daily visit", cost |-> 100,
                    createdAt |-> t ] : r \in Requesters, t \in CreatedAts }
    IN  base \cup { b @@ [status |-> "completed"] : b \in base }

\* the ServiceRequest model: status: str = "pending"
ServiceRequest(body) ==
    IF "status" \in DOMAIN body THEN body ELSE body @@ [status |-> "pending"]

RequestAction ==
    { [caregiverId |-> "c1", caregiverName |-> "Ann", caregiverEmail |-> "ann@x.com"],
      [caregiverId |-> "c2", caregiverName |-> "Bob", caregiverEmail |-> "bob@x.com"] }

Actions == {"approve", "reject", "cancel"}

\* request_id path parameters: the ids the store can hold, one never stored, an
\* upper-case spelling, and two malformed strings
RequestIds ==
    { OidStr(n) : n \in 10..(10 + MaxRequests) }
      \cup { [i \in 1..24 |-> IF i = 24 THEN "A" ELSE "0"] }
      \cup { [i \in 1..23 |-> "0"], [i \in 1..24 |-> IF i = 1 THEN "z" ELSE "0"] }

\* try: obj_id = ObjectId(request_id), for every path parameter of the model
\* (a table, so that the 24 digits are parsed once per string)
ObjectIdOf ==
    [ s \in RequestIds |->
        [ valid |-> OidValid(s), obj_id |-> IF OidValid(s) THEN OidParse(s) ELSE 0 ] ]

\* request_data of create_service_request
RequestData(request, now) ==
    [ userId |-> request.userId,
      userName |-> request.userName,
      userEmail |-> request.userEmail,
      serviceType |-> request.serviceType,
      requirements |-> request.requirements,
      cost |-> request.cost,
      status |-> request.status,
      createdAt |-> request.createdAt,
      updatedAt |-> now ]

\* create_service_request.  outcome: "ack", "unack" (result.acknowledged is
\* false: stored or not), "error" (insert_one raised, nothing stored).  The
\* handler's only except branch also catches the HTTPException of the
\* unacknowledged case.
CreateServiceRequest(body, now, outcome, stored) ==
    /\ Cardinality(requests) < MaxRequests
    /\ outcome = "ack" => stored
    /\ outcome = "error" => ~stored
    /\ LET request == ServiceRequest(body)
           oid == FreshOid(requests)
           doc == [_id |-> oid] @@ RequestData(request, now)
       IN  /\ requests' = IF stored THEN requests \cup {doc} ELSE requests
           /\ last' = [ op |-> "create", body |-> body, outcome |-> outcome,
                        storeOk |-> (outcome # "error"), pre |-> requests,
                        resp |-> CASE outcome = "ack" ->
                                        Ok([ message |-> "Service request created successfully!",
                                             requestId |-> OidStr(oid) ])
                                   [] outcome = "unack" ->
                                        HTTPException(500,
                                          "Failed to create service request: 500: Failed to create service request")
                                   [] OTHER ->
                                        HTTPException(500,
                                          "Failed to create service request: <error>") ]
    /\ UNCHANGED <<users, inflight, acked, raced, decided>>

\* order of two strings as MongoDB compares them: character by character
CharCode(ch) == HexVal(ch)

RECURSIVE StrLess(_, _)
StrLess(a, b) ==
    IF b = <<>> THEN FALSE
    ELSE IF a = <<>> THEN TRUE
    ELSE IF CharCode(a[1]) # CharCode(b[1]) THEN CharCode(a[1]) < CharCode(b[1])
    ELSE StrLess(Tail(a), Tail(b))

\* mutation of PendingFilter: only rejected requests are left out
PendingFilter_NotRejected(coll) == { d \in coll : d.status # "rejected" }

\* find({"status": "pending"})
PendingFilter(coll) == { d \in coll : d.status = "pending" }

\* .sort("createdAt", -1): the orders the cursor may yield (ties in any order)
SortCreatedAtDesc(S) ==
    { seq \in [1..Cardinality(S) -> S] :
        /\ \A i, j \in 1..Cardinality(S) : i # j => seq[i] # seq[j]
        /\ \A i, j \in 1..Cardinality(S) :
              i < j => ~StrLess(seq[i].createdAt, seq[j].createdAt) }

\* request["id"] = str(request["_id"]); del request["_id"]
Listed(d) ==
    [ k \in (DOMAIN d \ {"_id"}) \cup {"id"} |-> IF k = "id" THEN OidStr(d._id) ELSE d[k] ]

GetPendingRequests(storeOk) ==
    /\ \E cursor \in SortCreatedAtDesc(PendingFilter(requests)) :
          last' = [ op |-> "list", storeOk |-> storeOk, pre |-> requests,
                    resp |-> IF storeOk
                             THEN Ok([requests |-> [i \in 1..Len(cursor) |-> Listed(cursor[i])]])
                             ELSE HTTPException(500, "Failed to fetch service requests") ]
    /\ UNCHANGED <<users, requests, inflight, acked, raced, decided>>

\* mutation of InvalidAction: one more word is let through
InvalidAction_Lax(action) == action \notin {"approve", "reject", "cancel"}

\* action not in ["approve", "reject"]
InvalidAction(action) == action \notin {"approve", "reject"}

\* status = "approved" if action == "approve" else "rejected"
StatusOf(action) == IF action = "approve" THEN "approved" ELSE "rejected"

\* update_data of handle_request_action
UpdateData(action, caregiver_data, t1, t2) ==
    [ status |-> StatusOf(action),
      caregiverId |-> caregiver_data.caregiverId,
      caregiverName |-> caregiver_data.caregiverName,
      caregiverEmail |-> caregiver_data.caregiverEmail,
      processedAt |-> t1,
      updatedAt |-> t2 ]

\* mutation of UpdateOne: upsert, a document is created when none matches
UpdateOne_Upsert(coll, obj_id, update_data) ==
    IF \E d \in coll : d._id = obj_id
    THEN { IF d._id = obj_id THEN update_data @@ d ELSE d : d \in coll }
    ELSE coll \cup { [_id |-> obj_id] @@ update_data }

\* mutation of UpdateOne: only a pending request is updated
UpdateOne_OnlyPending(coll, obj_id, update_data) ==
    { IF d._id = obj_id /\ d.status = "pending" THEN update_data @@ d ELSE d : d \in coll }

\* update_one({"_id": obj_id}, {"$set": update_data}): the collection afterwards
UpdateOne(coll, obj_id, update_data) ==
    { IF d._id = obj_id THEN update_data @@ d ELSE d : d \in coll }

MatchedCount(coll, obj_id) == Cardinality({ d \in coll : d._id = obj_id })

\* handle_request_action.  storeOk: update_one returned; when it raised,
\* nothing was updated.
HandleRequestAction(request_id, action, caregiver_data, t1, t2, storeOk) ==
    /\ LET mk(ok, resp) == [ op |-> "action", request_id |-> request_id, action |-> action,
                             caregiver |-> caregiver_data, storeOk |-> ok,
                             pre |-> requests, resp |-> resp ]
       IN
       IF InvalidAction(action)
       THEN /\ last' = mk(TRUE, HTTPException(400, "Invalid action. Use 'approve' or 'reject'"))
            /\ UNCHANGED <<requests, decided>>
       ELSE IF ~ObjectIdOf[request_id].valid
       THEN /\ last' = mk(TRUE, HTTPException(400, "Invalid request ID format"))
            /\ UNCHANGED <<requests, decided>>
       ELSE LET obj_id == ObjectIdOf[request_id].obj_id
                update_data == UpdateData(action, caregiver_data, t1, t2)
                matched == MatchedCount(requests, obj_id)
            IN  /\ requests' = IF storeOk THEN UpdateOne(requests, obj_id, update_data)
                               ELSE requests
                /\ decided' = IF storeOk /\ matched # 0
                              THEN { x \in decided : x._id # obj_id }
                                     \cup { [ _id |-> obj_id, action |-> action,
                                              caregiver |-> caregiver_data ] }
                              ELSE decided
                /\ last' = mk(storeOk,
                     IF ~storeOk
                     THEN HTTPException(500, "Failed to process service request: <error>")
                     ELSE IF matched # 0
                     THEN Ok([message |-> IF StatusOf(action) = "approved"
                                          THEN "Request approved successfully!"
                                          ELSE "Request rejected successfully!"])
                     ELSE HTTPException(404, "Service request not found"))
    /\ UNCHANGED <<users, inflight, acked, raced>>

----------------------------------------------------------------------------

Init ==
    /\ users = {}
    /\ requests = {}
    /\ inflight = EmptyBag
    /\ last = [op |-> "init"]
    /\ acked = {}
    /\ raced = FALSE
    /\ decided = {}

\* the handlers over db.users
NextUsers ==
    \/ \E user \in UserSignup, storeOk \in BOOLEAN : SignupFind(user, storeOk)
    \/ \E user \in UserSignup, outcome \in {"ack", "unack", "error"}, stored \in BOOLEAN :
          SignupInsert(user, outcome, stored)
    \/ \E user \in UserLogin, storeOk \in BOOLEAN : Login(user, storeOk)

SpecUsers == Init /\ [][NextUsers]_vars

\* handle_request_action gets as far as update_one (only then can the store fail)
ReachesStore(request_id, action) ==
    ~InvalidAction(action) /\ ObjectIdOf[request_id].valid

\* the handlers over db.service_requests
NextRequests ==
    \/ \E body \in ServiceRequestBodies, now \in Times,
          outcome \in {"ack", "unack", "error"}, stored \in BOOLEAN :
          CreateServiceRequest(body, now, outcome, stored)
    \/ \E storeOk \in BOOLEAN : GetPendingRequests(storeOk)
    \/ \E request_id \in RequestIds, action \in Actions, caregiver_data \in RequestAction,
          t1 \in Times, t2 \in Times :
          \E storeOk \in (IF ReachesStore(request_id, action) THEN BOOLEAN ELSE {TRUE}) :
             HandleRequestAction(request_id, action, caregiver_data, t1, t2, storeOk)

SpecRequests == Init /\ [][NextRequests]_vars

\* the whole application: the two collections are independent of each other
Next == NextUsers \/ NextRequests

Spec == Init /\ [][Next]_vars

----------------------------------------------------------------------------
(* Properties of signup and login, checked under SpecUsers.                 *)
(* `last` describes the step just taken, `last.pre` the users collection    *)
(* and `last.preInflight` the suspended signups before it; `users` and      *)
(* `inflight` are those after it.                                           *)

\* C1: a signup whose email is the email of a user document present at its
\* existence check leaves the users collection as it was and ends there (no
\* insert follows); when find_one returned, its response is 409 Conflict.
C1_DuplicateEmailConflict ==
    ( /\ last.op = "signup"
      /\ last.step = "find"
      /\ \E d \in last.pre : d.email = last.user.email )
    => /\ users = last.pre
       /\ inflight = last.preInflight
       /\ last.storeOk => last.resp.code = 409

C1_Witness ==
    /\ last.op = "signup"
    /\ last.step = "find"
    /\ last.storeOk
    /\ \E d \in last.pre : d.email = last.user.email
    /\ last.resp.code = 409
    /\ users # {}

\* C2: a signup whose insert is acknowledged adds exactly one document to the
\* users collection, holding the given name, email, password, dob and role;
\* the document stays, and every later login with that email whose lookup
\* returns finds a user (its response is not 404).
C2_SignupStoresOneUser ==
    /\ ( last.op = "signup" /\ last.step = "insert" /\ last.outcome = "ack" )
       => \E d \in users :
             /\ d \notin last.pre
             /\ users = last.pre \cup {d}
             /\ \A e \in last.pre : e._id # d._id
             /\ DOMAIN d = {"_id", "name", "email", "password", "dob", "role"}
             /\ d.name = last.user.name
             /\ d.email = last.user.email
             /\ d.password = last.user.password
             /\ d.dob = last.user.dob
             /\ d.role = last.user.role
    /\ \A a \in acked : \E d \in users : d._id = a._id /\ d.email = a.email
    /\ ( /\ last.op = "login"
         /\ last.storeOk
         /\ \E a \in acked : a.email = last.user.email )
       => last.resp.code # 404

C2_Witness ==
    /\ last.op = "login"
    /\ last.storeOk
    /\ \E a \in acked : a.email = last.user.email
    /\ last.resp.code = 200
    /\ Cardinality(users) = 1

\* C3: the response of a login whose lookup returned is decided by the users
\* collection: 404 exactly when no user document has the email; otherwise, for
\* the user document looked up, 401 when its password differs from the given
\* one and else 200 with a user record of exactly id, name, email, role and
\* dob.  No response of login carries a password field or the stored password.
C3_LoginOutcome ==
    last.op = "login" =>
        LET matching == { d \in users : d.email = last.user.email }
            body == last.resp.body
        IN  /\ users = last.pre
            /\ "password" \notin DOMAIN body
            /\ \A d \in matching :
                  IF last.resp.code = 200
                  THEN /\ "password" \notin DOMAIN body.user
                       /\ body.message # d.password
                       /\ \A k \in DOMAIN body.user \ {"id"} : body.user[k] # d.password
                  ELSE body.detail # d.password
            /\ last.storeOk =>
                 /\ last.resp.code \in {404, 401, 200}
                 /\ last.resp.code = 404 <=> matching = {}
                 /\ last.resp.code = 401 =>
                       /\ \E d \in matching : d.password # last.user.password
                       /\ DOMAIN body = {"detail"}
                 /\ last.resp.code = 200 =>
                       /\ DOMAIN body = {"message", "user"}
                       /\ DOMAIN body.user = {"id", "name", "email", "role", "dob"}
                       /\ \E d \in matching :
                             /\ d.password = last.user.password
                             /\ OidValid(body.user.id)
                             /\ OidParse(body.user.id) = d._id
                             /\ body.user.name = d.name
                             /\ body.user.email = d.email
                             /\ body.user.role = d.role
                             /\ body.user.dob = d.dob
                 /\ (\A d \in matching : d.password # last.user.password)
                       => last.resp.code # 200
                 /\ (matching # {} /\ \A d \in matching : d.password = last.user.password)
                       => last.resp.code = 200

C3_Witness ==
    /\ last.op = "login"
    /\ last.storeOk
    /\ last.resp.code = 401
    /\ \E d \in users : d.email = last.user.email /\ d.password # last.user.password
    /\ \E d \in users : d.email # last.user.email

\* C10: two documents with one email are in the users collection only if a
\* signup passed its existence check while another signup with the same email
\* was suspended between its check and its insert; signups that run their
\* check and insert without such an overlap keep at most one user per email.
C10_DuplicatesOnlyByRace ==
    ~raced => \A d1, d2 \in users : d1.email = d2.email => d1 = d2

\* both racing signups were answered 200 and the collection holds both documents
C10_Witness ==
    /\ raced
    /\ \E d1, d2 \in users :
          /\ d1 # d2
          /\ d1.email = d2.email
          /\ \E a1, a2 \in acked : a1._id = d1._id /\ a2._id = d2._id

----------------------------------------------------------------------------
(* Properties of the service-request handlers, checked under SpecRequests.  *)
(* `last.pre` is the service_requests collection before the step just       *)
(* taken, `requests` the collection after it.                               *)

Lifecycle == {"pending", "approved", "rejected"}

\* the document of coll that the path parameter request_id names, if any
Named(coll, request_id) ==
    IF coll = {} \/ ~OidValid(request_id) THEN {}
    ELSE LET obj_id == OidParse(request_id) IN { d \in coll : d._id = obj_id }

\* C4: a listing that the store answers returns exactly the documents whose
\* status is pending, each once, with id = str(_id) in place of _id and its
\* other fields as stored, ordered by createdAt descending; a request that
\* was approved or rejected is not in it.  Listing changes no document.
C4_PendingListing ==
    ( last.op = "list" /\ last.storeOk ) =>
        LET lst == last.resp.body.requests
        IN  /\ last.resp.code = 200
            /\ requests = last.pre
            /\ \A d \in requests :
                  d.status = "pending" =>
                     \E i \in 1..Len(lst) :
                        /\ OidValid(lst[i].id)
                        /\ OidParse(lst[i].id) = d._id
                        /\ DOMAIN lst[i] = (DOMAIN d \ {"_id"}) \cup {"id"}
                        /\ \A k \in DOMAIN d \ {"_id"} : lst[i][k] = d[k]
            /\ \A i \in 1..Len(lst) :
                  /\ lst[i].status = "pending"
                  /\ \E d \in requests : d.status = "pending" /\ OidParse(lst[i].id) = d._id
                  /\ \A x \in decided : OidParse(lst[i].id) # x._id
            /\ \A i, j \in 1..Len(lst) :
                  i < j => /\ lst[i].id # lst[j].id
                           /\ ~StrLess(lst[i].createdAt, lst[j].createdAt)

\* two pending requests listed, the later createdAt first
C4_Witness ==
    /\ last.op = "list"
    /\ last.storeOk
    /\ Len(last.resp.body.requests) = 2
    /\ StrLess(last.resp.body.requests[2].createdAt, last.resp.body.requests[1].createdAt)

\* C5: a call of the action handler with an action other than approve and
\* reject is answered 400 and leaves every service-request document as it
\* was, whatever the request id and the caregiver data are.
C5_InvalidActionRejected ==
    ( last.op = "action" /\ last.action \notin {"approve", "reject"} )
    => /\ last.resp.code = 400
       /\ requests = last.pre

\* an invalid action on the id of a stored, pending request
C5_Witness ==
    /\ last.op = "action"
    /\ last.action = "cancel"
    /\ last.resp.code = 400
    /\ \E d \in Named(requests, last.request_id) : d.status = "pending"

\* C6: a call with action approve or reject and a well-formed id that no
\* stored document has, whose update_one returns, is answered 404 and leaves
\* the service_requests collection as it was.
C6_UnknownIdNotFound ==
    ( /\ last.op = "action"
      /\ last.action \in {"approve", "reject"}
      /\ last.storeOk
      /\ OidValid(last.request_id)
      /\ Named(last.pre, last.request_id) = {} )
    => /\ last.resp.code = 404
       /\ requests = last.pre

\* an unknown id while other requests are stored
C6_Witness ==
    /\ last.op = "action"
    /\ last.action \in {"approve", "reject"}
    /\ OidValid(last.request_id)
    /\ Named(last.pre, last.request_id) = {}
    /\ last.storeOk
    /\ last.resp.code = 404
    /\ requests # {}

\* C7: approve or reject on the id of a stored request succeeds whatever the
\* request's status is (also when it was decided before), and the document
\* then has the status and the caregiver id, name and email of that call:
\* after any sequence of successful actions on one id the document shows the
\* last of them.
C7_LastActionWins ==
    /\ ( /\ last.op = "action"
         /\ last.action \in {"approve", "reject"}
         /\ last.storeOk
         /\ Named(last.pre, last.request_id) # {} )
       => /\ last.resp.code = 200
          /\ \E x \in decided :
                /\ x.action = last.action
                /\ x.caregiver = last.caregiver
                /\ x._id = OidParse(last.request_id)
    /\ \A x \in decided :
          \E d \in requests :
             /\ d._id = x._id
             /\ x.action = "approve" => d.status = "approved"
             /\ x.action = "reject" => d.status = "rejected"
             /\ d.caregiverId = x.caregiver.caregiverId
             /\ d.caregiverName = x.caregiver.caregiverName
             /\ d.caregiverEmail = x.caregiver.caregiverEmail

\* approve by one caregiver, then reject by another, on the same id
C7_Witness ==
    /\ last.op = "action"
    /\ last.action = "reject"
    /\ last.resp.code = 200
    /\ \E d \in Named(last.pre, last.request_id) :
          /\ d.status = "approved"
          /\ d.caregiverId # last.caregiver.caregiverId
    /\ \E d \in Named(requests, last.request_id) :
          /\ d.status = "rejected"
          /\ d.caregiverId = last.caregiver.caregiverId
          /\ d.caregiverName = last.caregiver.caregiverName
          /\ d.caregiverEmail = last.caregiver.caregiverEmail

\* C8: the status of a stored request (one of pending, approved, rejected)
\* changes only from pending, and only to approved or rejected: approved and
\* rejected are terminal.
C8_OnlyPendingTransitions ==
    last.op \in {"create", "list", "action"} =>
        \A d \in last.pre : \A e \in requests :
            ( d._id = e._id /\ d.status \in Lifecycle /\ e.status # d.status )
            => ( d.status = "pending" /\ e.status \in {"approved", "rejected"} )

\* C9: the status of every stored service request is one of pending,
\* approved and rejected.
C9_StatusInLifecycle ==
    \A d \in requests : d.status \in Lifecycle

====
